---- MODULE Spec2Model ----
(***************************************************************************)
(* The delivery queue and transport of the Checkend browser SDK            *)
(* (client.ts, class Client): the bounded queue, the single-flight drain   *)
(* (processQueue), flush, sendNotice and the confirmable transport         *)
(* (sendViaFetch / handleResponse).                                        *)
(*                                                                         *)
(* JavaScript runs one turn at a time.  A turn of the model is one action: *)
(* a call of a public method up to its return, or the completion of a      *)
(* transport promise together with the continuations it resumes.  A        *)
(* continuation of a promise that is already settled is a microtask: the   *)
(* event loop runs it before any further task, so while one is pending no  *)
(* other action is enabled (MicrotaskPending).                             *)
(*                                                                         *)
(* The module has several specifications over one state.  Spec / FairSpec  *)
(* run the Client alone.  SdkSpec runs the orchestrator of index.ts        *)
(* (configure, stop, reset, notify, notifySync, flush and the two global   *)
(* handlers) on top of the Client and the transport.  PipelineSpec runs    *)
(* the entry points after one configure() drawn from a larger set of       *)
(* options, while the network is silent.  ContextSpec runs the context and *)
(* user accessors, NoticeSpec the functions of notice.ts.                  *)
(***************************************************************************)
EXTENDS Integers, Sequences, FiniteSets, TLC

\* Largest queue capacity (config.maxQueueSize) the model configures.
MaxQueueSize == 2
\* Number of notices handed to the client (queueNotice and sendNotice calls).
MaxNotices == 3
\* Number of sendNotice requests pending at the same time.
MaxDirect == 1
\* Number of notices the entry points of the SDK hand to the Client.
MaxSdkNotices == 2
\* Longest list of beforeNotify callbacks.
MaxCallbacks == 2
\* Message lengths run from 0 to MaxShortMessage and from MessageMargin
\* below the cap to MessageMargin above it.
MaxShortMessage == 3
MessageMargin == 3
\* Stack traces have 0 to MaxShortStack lines, or from one line below the
\* cap to MaxExtraLines above it.
MaxShortStack == 2
MaxExtraLines == 2
\* A notice carries up to MaxTags tags.
MaxTags == 2
\* Up to MaxPending payloads wait for transmission while the context changes.
MaxPending == 2

VARIABLES
    config,        \* Client.config: [maxQueueSize, useSendBeacon]
    queue,         \* Client.queue: sequence of payloads (by identity)
    sending,       \* Client.sending
    inflight,      \* pending sendViaFetch calls, each suspended on an await
    activeDrains,  \* number of processQueue loops that are suspended
    nextId,        \* identity of the next notice
    accepted,      \* history: payloads queueNotice accepted, in order
    rejected,      \* history: payloads queueNotice dropped
    sent,          \* history: payloads the drain handed to fetch, in order
    last,          \* history: the transmission attempt completed by the last
                   \*          step, if any
    qn,            \* history: the queueNotice call of the last step, if any
    burst,         \* history: accepted calls since idle and empty, -1 if a
                   \*          transport completion happened in between
    unhandled,     \* rejected promises nobody awaits (unhandled rejections)
    flushPc,       \* position of the flush() call: "idle" when none is pending
    flushBefore,   \* history: payloads accepted before the pending flush()
                   \*          was called
    \* index.ts, module state
    sdkConfig,     \* config: NullConfig or a Configuration
    client,        \* client: "null" or "set" (the Client is the state above)
    started,       \* started
    originalOnError,               \* "null", "app" or "sdk"
    originalOnUnhandledRejection,  \* "null", "app" or "sdk"
    windowOnError,                 \* window.onerror: "null", "app" or "sdk"
    windowOnUnhandledRejection,    \* window.onunhandledrejection
    dispatch,      \* a global handler of the SDK that is calling itself
    call,          \* history: the entry point called by the last step, if any
    \* index.ts, global context and user
    globalContext, \* globalContext: the properties of the object it refers to
    globalUser,    \* globalUser: the properties of the object it refers to
    held,          \* the object an accessor returned to the caller, if any
    expectedContext, \* history: the context that setContext / clear built
    expectedUser,    \* history: the user that setUser / clear built
    ctxOp,         \* history: the operation of the last step
    observed,      \* history: the context and user the last notify merged
    pending,       \* payloads built by notify that wait for transmission
    wire,          \* history: the context and user of the body just transmitted
    \* notice.ts
    noticeOp,      \* history: the function called by the last step
    noticeInput,   \* history: the message it was given
    noticeMessage, \* history: the message of the Notice it returned
    noticeArgs,    \* history: the source, position and error it was given
    noticeBacktrace, \* history: the backtrace of the Notice it returned
    payloadCall    \* history: the Notice given to toPayload and what came back

clientVars == <<config, queue, sending, inflight, activeDrains, nextId,
                accepted, rejected, sent, last, qn, burst, unhandled, flushPc,
                flushBefore>>

sdkVars == <<sdkConfig, client, started, originalOnError,
             originalOnUnhandledRejection, windowOnError,
             windowOnUnhandledRejection, dispatch, call>>

ctxVars == <<globalContext, globalUser, held, expectedContext,
             expectedUser, ctxOp, observed, pending, wire>>

noticeVars == <<noticeOp, noticeInput, noticeMessage, noticeArgs, noticeBacktrace,
               payloadCall>>

vars == <<clientVars, sdkVars, ctxVars, noticeVars>>

Range(s) == {s[i] : i \in 1..Len(s)}

Statuses == {201, 400, 401, 422, 429, 500, 404}
\* What reading the response body yields: an acknowledgment object, a body
\* that is not an acknowledgment (not JSON, or JSON null), a failed read.
Bodies == {"ack", "garbage", "unreadable"}
\* navigator.sendBeacon: missing, returns true, returns false, throws.
BeaconOutcomes == {"unavailable", "accepted", "refused", "throws"}
Callers == {"queueNotice", "flush", "sendNotice"}

NoCall == [called |-> FALSE, before |-> <<>>, pre |-> 0, ret |-> FALSE, id |-> 0]
NoAttempt == [id |-> 0, caller |-> "none", kind |-> "none", status |-> 0,
              body |-> "none", result |-> "none"]

Request(id, caller) == [id |-> id, caller |-> caller, phase |-> "fetch", status |-> 0]

TypeOK ==
    /\ config \in [maxQueueSize : 0..MaxQueueSize, useSendBeacon : BOOLEAN]
    /\ queue \in Seq(1..MaxNotices)
    /\ sending \in BOOLEAN
    /\ \A r \in inflight :
          /\ r.id \in 1..MaxNotices
          /\ r.caller \in Callers
          /\ r.phase \in {"fetch", "body"}
          /\ r.status \in Statuses \cup {0}
    /\ activeDrains \in Nat
    /\ nextId \in 1..(MaxNotices + 1)
    /\ unhandled \in Nat
    /\ flushPc \in {"idle", "spin", "wait", "rejected"}

----------------------------------------------------------------------------
(* Pure parts of the code.                                                 *)

\* Variant of QueueFull: the capacity test written with > instead of >=.
QueueFullOffByOne(q) == Len(q) > config.maxQueueSize

\* queueNotice: this.queue.length >= this.config.maxQueueSize
QueueFull(q) == Len(q) >= config.maxQueueSize

\* Variant of QueueShift: pop() takes the newest entry instead of the oldest.
QueuePop(q) == [payload |-> q[Len(q)], rest |-> SubSeq(q, 1, Len(q) - 1)]

\* Variant of QueueShift: the head is read but left in the queue.
QueuePeek(q) == [payload |-> Head(q), rest |-> q]

\* processQueue: const payload = this.queue.shift()
QueueShift(q) == [payload |-> Head(q), rest |-> Tail(q)]

\* Variant of ProcessQueueSkips: the sending flag is not tested.
ProcessQueueSkipsEmptyOnly(q) == Len(q) = 0

\* processQueue: if (this.sending || this.queue.length === 0) return
ProcessQueueSkips(q) == sending \/ Len(q) = 0

\* Variant of HandleResponse: response.text() is awaited without its catch.
HandleResponseNoCatch(status, body) ==
    IF status = 201
    THEN IF body = "ack" THEN "ack" ELSE "reject"
    ELSE IF body = "unreadable" THEN "reject" ELSE "null"

\* handleResponse: 201 parses the acknowledgment with response.json(), whose
\* rejection (or the TypeError of reading result.id of null) rejects the
\* returned promise; every other status reads the text with a catch and
\* returns null.
HandleResponse(status, body) ==
    IF status = 201
    THEN IF body = "ack" THEN "ack" ELSE "reject"
    ELSE "null"

\* sendViaFetch: a rejected fetch (AbortError of the timeout, network error)
\* is caught and gives null; a response is passed to handleResponse, whose
\* promise is returned without await, so its rejection passes the try/catch.
SendViaFetchResult(kind, status, body) ==
    IF kind = "response" THEN HandleResponse(status, body) ELSE "null"

\* Variant of TrySendBeacon: everything but an explicit false counts as sent.
TrySendBeaconUnlessRefused(b) == b # "refused"

\* trySendBeacon
TrySendBeacon(b) == b = "accepted"

\* Variant of LoopIter: an if in place of the while; the flag is cleared
\* after the first payload whatever is still queued.
LoopIterSingle(q, infl, drains, snt, caller) ==
    IF Len(q) > 0 /\ ~sending
    THEN LET s == QueueShift(q) IN
         [queue |-> s.rest, sending |-> TRUE,
          inflight |-> infl \cup {Request(s.payload, caller)},
          activeDrains |-> drains, sent |-> Append(snt, s.payload),
          running |-> TRUE]
    ELSE [queue |-> q, sending |-> FALSE, inflight |-> infl,
          activeDrains |-> drains - 1, sent |-> snt, running |-> FALSE]

\* One evaluation of the while loop of processQueue, from the loop test to
\* the next suspension (await this.sendViaFetch(payload)) or to the end.
LoopIter(q, infl, drains, snt, caller) ==
    IF Len(q) > 0
    THEN LET s == QueueShift(q) IN
         [queue |-> s.rest, sending |-> TRUE,
          inflight |-> infl \cup {Request(s.payload, caller)},
          activeDrains |-> drains, sent |-> Append(snt, s.payload),
          running |-> TRUE]
    ELSE [queue |-> q, sending |-> FALSE, inflight |-> infl,
          activeDrains |-> drains - 1, sent |-> snt, running |-> FALSE]

\* processQueue, called on queue q, up to its first suspension.
ProcessQueue(q, caller) ==
    IF ProcessQueueSkips(q)
    THEN [queue |-> q, sending |-> sending, inflight |-> inflight,
          activeDrains |-> activeDrains, sent |-> sent, running |-> FALSE]
    ELSE LoopIter(q, inflight, activeDrains + 1, sent, caller)

\* sendViaFetch: setTimeout(() => controller.abort(), timeout) before fetch,
\* clearTimeout(timeoutId) as soon as fetch has resolved: the abort timer of
\* request r is pending exactly while r awaits fetch.
TimeoutArmed(r) == r.phase = "fetch"

IdleEmpty(q, s, d) == ~s /\ q = <<>> /\ d = 0

\* A continuation of an already settled promise is queued: flush awaits the
\* promise of a processQueue call that returned at once.
MicrotaskPending == flushPc = "spin"

----------------------------------------------------------------------------
(* configuration.ts: class Configuration.                                  *)

CallbackResults == {"true", "false", "undefined", "null", "throws"}
CallbackLists == UNION {[1..k -> CallbackResults] : k \in 0..MaxCallbacks}

StringPattern(text) == [kind |-> "string", text |-> text]
RegExpPattern(source) == [kind |-> "regexp", text |-> source]

\* RegExp.prototype.test on the strings that occur in the model.
RegExpTest(source, str) ==
    CASE source = "^Network" -> str \in {"NetworkError"}
      [] source = "^Script error\\.?$" -> str \in {"Script error", "Script error."}
      [] OTHER -> FALSE

DEFAULT_IGNORED_EXCEPTIONS ==
    << StringPattern("ResizeObserver loop limit exceeded"),
       StringPattern("ResizeObserver loop completed with undelivered notifications"),
       RegExpPattern("^Script error\\.?$") >>

NullConfig == [isNull |-> TRUE]

\* new Configuration(options)
Configuration(options) ==
    [isNull |-> FALSE,
     apiKey |-> options.apiKey,
     environment |-> options.environment,
     enabledOption |-> options.enabled,
     ignoredExceptions |-> DEFAULT_IGNORED_EXCEPTIONS \o options.ignoredExceptions,
     beforeNotify |-> options.beforeNotify,
     captureUnhandled |-> options.captureUnhandled,
     captureUnhandledRejections |-> options.captureUnhandledRejections,
     maxQueueSize |-> options.maxQueueSize,
     useSendBeacon |-> options.useSendBeacon]

\* Configuration.isValid (the endpoint always has its default here)
IsValid(cfg) == cfg.apiKey # ""

IsProductionOrStaging(cfg) == cfg.environment \in {"production", "staging"}

\* Variant of Enabled: the explicit option is ignored.
EnabledByEnvironment(cfg) == IsProductionOrStaging(cfg)

\* Configuration.enabled (getter)
Enabled(cfg) ==
    IF cfg.enabledOption # "undefined"
    THEN cfg.enabledOption = "true"
    ELSE IsProductionOrStaging(cfg)

PatternMatches(pattern, errorClass, message) ==
    IF pattern.kind = "string"
    THEN errorClass = pattern.text \/ message = pattern.text
    ELSE RegExpTest(pattern.text, errorClass) \/ RegExpTest(pattern.text, message)

\* Variant of ShouldIgnore: only the error class is matched.
ShouldIgnoreClassOnly(cfg, errorClass, message) ==
    \E i \in 1..Len(cfg.ignoredExceptions) :
        PatternMatches(cfg.ignoredExceptions[i], errorClass, errorClass)

\* Configuration.shouldIgnore
ShouldIgnore(cfg, errorClass, message) ==
    \E i \in 1..Len(cfg.ignoredExceptions) :
        PatternMatches(cfg.ignoredExceptions[i], errorClass, message)

----------------------------------------------------------------------------
(* index.ts: helpers.                                                      *)

\* a || b on strings
OrElse(a, b) == IF a = "" THEN b ELSE a

NoSdkCall == [op |-> "none", errorClass |-> "", message |-> "", tags |-> <<>>,
              outcome |-> "none", invoked |-> <<>>, id |-> 0, threw |-> FALSE]
NoDispatch == [kind |-> "none", message |-> "", hasError |-> FALSE, name |-> ""]

\* shouldNotify
ShouldNotify ==
    /\ started /\ ~sdkConfig.isNull /\ client # "null"
    /\ IsValid(sdkConfig)
    /\ Enabled(sdkConfig)

\* Variant of CallbacksFrom: any falsy result blocks the notice.
RECURSIVE CallbacksFromFalsy(_, _)
CallbacksFromFalsy(callbacks, i) ==
    IF i > Len(callbacks)
    THEN [pass |-> TRUE, invoked |-> [k \in 1..Len(callbacks) |-> k]]
    ELSE IF callbacks[i] \in {"false", "undefined", "null"}
    THEN [pass |-> FALSE, invoked |-> [k \in 1..i |-> k]]
    ELSE CallbacksFromFalsy(callbacks, i + 1)

\* Variant of CallbacksFrom: a callback that throws ends the loop and blocks
\* the notice.
RECURSIVE CallbacksFromUncaught(_, _)
CallbacksFromUncaught(callbacks, i) ==
    IF i > Len(callbacks)
    THEN [pass |-> TRUE, invoked |-> [k \in 1..Len(callbacks) |-> k]]
    ELSE IF callbacks[i] \in {"false", "throws"}
    THEN [pass |-> FALSE, invoked |-> [k \in 1..i |-> k]]
    ELSE CallbacksFromUncaught(callbacks, i + 1)

\* runBeforeNotifyCallbacks, the for loop from callback i on: the callback
\* is called; result === false returns false; a throw is caught and logged.
RECURSIVE CallbacksFrom(_, _)
CallbacksFrom(callbacks, i) ==
    IF i > Len(callbacks)
    THEN [pass |-> TRUE, invoked |-> [k \in 1..Len(callbacks) |-> k]]
    ELSE IF callbacks[i] = "false"
    THEN [pass |-> FALSE, invoked |-> [k \in 1..i |-> k]]
    ELSE CallbacksFrom(callbacks, i + 1)

\* runBeforeNotifyCallbacks(notice)
RunBeforeNotifyCallbacks ==
    IF sdkConfig.isNull THEN [pass |-> TRUE, invoked |-> <<>>]
    ELSE CallbacksFrom(sdkConfig.beforeNotify, 1)

----------------------------------------------------------------------------
(* index.ts: global context and user.  Objects have identity: whoever      *)
(* holds a reference to an object can change its properties.  The object   *)
(* the caller holds is either an object of its own or the very object a    *)
(* module variable refers to.  Property values are primitives.             *)

Keys == {"id", "plan"}
\* A property value; 0 stands for an absent property.
Values == 0..2
Mappings == [Keys -> Values]
EmptyMapping == [k \in Keys |-> 0]
NoObject == [of |-> "none", internal |-> FALSE, props |-> EmptyMapping]
NoObservation == [made |-> FALSE, context |-> EmptyMapping, user |-> EmptyMapping]
\* Nothing has been transmitted.
NoWire == [sent |-> FALSE, context |-> EmptyMapping, user |-> EmptyMapping,
           expectedContext |-> EmptyMapping, expectedUser |-> EmptyMapping,
           globalsChanged |-> FALSE]

\* { ...a, ...b }
Spread(a, b) == [k \in Keys |-> IF b[k] # 0 THEN b[k] ELSE a[k]]

\* Variant of ReturnedCopy: the accessor returns the internal object itself.
ReturnedReference(of, mapping) ==
    [of |-> of, internal |-> TRUE, props |-> EmptyMapping]

\* getContext / getUser: return { ...globalContext } / { ...globalUser }
ReturnedCopy(of, mapping) ==
    [of |-> of, internal |-> FALSE, props |-> Spread(EmptyMapping, mapping)]

\* The properties of the object the caller holds.
HeldProps ==
    IF ~held.internal THEN held.props
    ELSE IF held.of = "context" THEN globalContext ELSE globalUser

\* A module variable is assigned a new object: a caller holding the old one
\* keeps it, with the properties it had.
Reassigned(of) ==
    IF held.internal /\ held.of = of
    THEN [of |-> of, internal |-> FALSE, props |-> HeldProps]
    ELSE held

\* createNoticeFromRaw without an error object, a source or a position
NoErrorObject == [present |-> FALSE, stack |-> <<>>]
NoRawArgs == [source |-> "", lineno |-> -1, colno |-> -1, error |-> NoErrorObject]

\* An optional field that is not set
Undefined == "undefined"
\* toPayload has not been called
NoPayloadCall == [notice |-> Undefined, after |-> Undefined,
                  first |-> Undefined, second |-> Undefined]


----------------------------------------------------------------------------
Init ==
    /\ config \in [maxQueueSize : 0..MaxQueueSize, useSendBeacon : BOOLEAN]
    /\ queue = <<>>
    /\ sending = FALSE
    /\ inflight = {}
    /\ activeDrains = 0
    /\ nextId = 1
    /\ accepted = <<>>
    /\ rejected = {}
    /\ sent = <<>>
    /\ last = NoAttempt
    /\ qn = NoCall
    /\ burst = 0
    /\ unhandled = 0
    /\ flushPc = "idle"
    /\ flushBefore = {}
    /\ sdkConfig = NullConfig
    /\ client = "null"
    /\ started = FALSE
    /\ originalOnError = "null"
    /\ originalOnUnhandledRejection = "null"
    /\ windowOnError = "null"
    /\ windowOnUnhandledRejection = "null"
    /\ dispatch = NoDispatch
    /\ call = NoSdkCall
    /\ globalContext = EmptyMapping
    /\ globalUser = EmptyMapping
    /\ held = NoObject
    /\ expectedContext = EmptyMapping
    /\ expectedUser = EmptyMapping
    /\ ctxOp = "none"
    /\ observed = NoObservation
    /\ pending = <<>>
    /\ wire = NoWire
    /\ noticeOp = "none"
    /\ noticeInput = <<>>
    /\ noticeMessage = <<>>
    /\ noticeArgs = NoRawArgs
    /\ noticeBacktrace = <<>>
    /\ payloadCall = NoPayloadCall

\* Client.queueNotice(notice)
QueueNotice ==
    /\ ~MicrotaskPending
    /\ nextId <= MaxNotices
    /\ nextId' = nextId + 1
    /\ IF QueueFull(queue)
       THEN /\ rejected' = rejected \cup {nextId}
            /\ qn' = [called |-> TRUE, before |-> queue, pre |-> burst,
                      ret |-> FALSE, id |-> nextId]
            /\ UNCHANGED <<queue, sending, inflight, activeDrains, accepted,
                           sent, burst>>
       ELSE LET pq == ProcessQueue(Append(queue, nextId), "queueNotice") IN
            /\ queue' = pq.queue
            /\ sending' = pq.sending
            /\ inflight' = pq.inflight
            /\ activeDrains' = pq.activeDrains
            /\ sent' = pq.sent
            /\ accepted' = Append(accepted, nextId)
            /\ burst' = IF burst >= 0 THEN burst + 1 ELSE burst
            /\ qn' = [called |-> TRUE, before |-> queue, pre |-> burst,
                      ret |-> TRUE, id |-> nextId]
            /\ UNCHANGED rejected
    /\ last' = NoAttempt
    /\ UNCHANGED <<config, unhandled, flushPc, flushBefore>>

\* Variant of SendNotice: the notice goes through the queue.
SendNoticeViaQueue(b) == QueueNotice

\* Client.sendNotice(notice), with the outcome b of navigator.sendBeacon
SendNotice(b) ==
    /\ ~MicrotaskPending
    /\ nextId <= MaxNotices
    /\ Cardinality({r \in inflight : r.caller = "sendNotice"}) < MaxDirect
    /\ nextId' = nextId + 1
    /\ IF config.useSendBeacon /\ TrySendBeacon(b)
       THEN /\ last' = [id |-> nextId, caller |-> "sendNotice", kind |-> "beacon",
                        status |-> 0, body |-> "none", result |-> "null"]
            /\ UNCHANGED inflight
       ELSE /\ inflight' = inflight \cup {Request(nextId, "sendNotice")}
            /\ last' = NoAttempt
    /\ qn' = NoCall
    /\ UNCHANGED <<config, queue, sending, activeDrains, accepted, rejected,
                   sent, burst, unhandled, flushPc, flushBefore>>

\* The while loop of flush, from its test to the next await or to the return.
FlushLoop ==
    IF Len(queue) > 0
    THEN LET pq == ProcessQueue(queue, "flush") IN
         /\ queue' = pq.queue
         /\ sending' = pq.sending
         /\ inflight' = pq.inflight
         /\ activeDrains' = pq.activeDrains
         /\ sent' = pq.sent
         /\ flushPc' = IF pq.running THEN "wait" ELSE "spin"
    ELSE \* the promise of flush resolves
         /\ flushPc' = "idle"
         /\ UNCHANGED <<queue, sending, inflight, activeDrains, sent>>

\* Client.flush()
Flush ==
    /\ ~MicrotaskPending
    /\ flushPc \in {"idle", "rejected"}
    /\ FlushLoop
    /\ flushBefore' = IF flushPc' = "idle" THEN {} ELSE Range(accepted)
    /\ qn' = NoCall
    /\ last' = NoAttempt
    /\ UNCHANGED <<config, nextId, accepted, rejected, burst, unhandled>>

\* flush resumes after await this.processQueue()
FlushResume ==
    /\ flushPc = "spin"
    /\ FlushLoop
    /\ flushBefore' = IF flushPc' = "idle" THEN {} ELSE flushBefore
    /\ qn' = NoCall
    /\ last' = NoAttempt
    /\ UNCHANGED <<config, nextId, accepted, rejected, burst, unhandled>>

\* The promise of sendViaFetch for request r settles with result res: the
\* caller of sendNotice gets it; a processQueue loop resumes.
Settle(r, kind, status, body) ==
    LET res == SendViaFetchResult(kind, status, body)
        rest == inflight \ {r}
    IN
    /\ last' = [id |-> r.id, caller |-> r.caller, kind |-> kind,
                status |-> status, body |-> body, result |-> res]
    /\ qn' = NoCall
    /\ IF r.caller = "sendNotice"
       THEN /\ inflight' = rest
            /\ UNCHANGED <<queue, sending, activeDrains, sent, burst,
                           unhandled, flushPc>>
       ELSE IF res = "reject"
       THEN \* await this.sendViaFetch(payload) throws in processQueue
            /\ inflight' = rest
            /\ activeDrains' = activeDrains - 1
            /\ unhandled' = IF r.caller = "queueNotice" THEN unhandled + 1
                            ELSE unhandled
            /\ flushPc' = IF r.caller = "flush" /\ flushPc = "wait"
                          THEN "rejected" ELSE flushPc
            /\ burst' = -1
            /\ UNCHANGED <<queue, sending, sent>>
       ELSE LET it == LoopIter(queue, rest, activeDrains, sent, r.caller) IN
            /\ queue' = it.queue
            /\ sending' = it.sending
            /\ inflight' = it.inflight
            /\ activeDrains' = it.activeDrains
            /\ sent' = it.sent
            /\ flushPc' = IF ~it.running /\ r.caller = "flush" /\ flushPc = "wait"
                          THEN "spin" ELSE flushPc
            /\ burst' = IF IdleEmpty(it.queue, it.sending, it.activeDrains)
                        THEN 0 ELSE -1
            /\ UNCHANGED unhandled
    /\ UNCHANGED <<config, nextId, accepted, rejected, flushBefore>>

\* fetch resolves with a response: clearTimeout, handleResponse starts to
\* read the body.
FetchResolve ==
    \E r \in inflight, status \in Statuses :
        /\ ~MicrotaskPending
        /\ r.phase = "fetch"
        /\ inflight' = (inflight \ {r}) \cup
                            {[r EXCEPT !.phase = "body", !.status = status]}
        /\ qn' = NoCall
        /\ last' = NoAttempt
        /\ burst' = IF r.caller = "sendNotice" THEN burst ELSE -1
        /\ UNCHANGED <<config, queue, sending, activeDrains, nextId, accepted,
                       rejected, sent, unhandled, flushPc, flushBefore>>

\* fetch rejects: the timeout aborted it ("timeout") or the network failed
\* ("network", which also stands for JSON.stringify or fetch throwing inside
\* the try block: the catch turns each of them into null).
FetchFail ==
    \E r \in inflight, kind \in {"timeout", "network"} :
        /\ ~MicrotaskPending
        /\ r.phase = "fetch"
        /\ Settle(r, kind, 0, "none")

\* response.json() / response.text() settles.
BodyDone ==
    \E r \in inflight, body \in Bodies :
        /\ ~MicrotaskPending
        /\ r.phase = "body"
        /\ Settle(r, "response", r.status, body)

Transport == FetchResolve \/ FetchFail \/ BodyDone

\* The Client alone: the rest of the state stays as it is.
Next ==
    \/ QueueNotice /\ UNCHANGED <<sdkVars, ctxVars, noticeVars>>
    \/ \E b \in BeaconOutcomes : SendNotice(b) /\ UNCHANGED <<sdkVars, ctxVars, noticeVars>>
    \/ Flush /\ UNCHANGED <<sdkVars, ctxVars, noticeVars>>
    \/ FlushResume /\ UNCHANGED <<sdkVars, ctxVars, noticeVars>>
    \/ FetchResolve /\ UNCHANGED <<sdkVars, ctxVars, noticeVars>>
    \/ FetchFail /\ UNCHANGED <<sdkVars, ctxVars, noticeVars>>
    \/ BodyDone /\ UNCHANGED <<sdkVars, ctxVars, noticeVars>>

Spec == Init /\ [][Next]_vars

\* The transport answers every request, and the event loop runs every
\* queued continuation.
FairSpec ==
    /\ Spec
    /\ WF_vars(Transport /\ UNCHANGED <<sdkVars, ctxVars, noticeVars>>)
    /\ WF_vars(FlushResume /\ UNCHANGED <<sdkVars, ctxVars, noticeVars>>)

----------------------------------------------------------------------------
(* index.ts: the orchestrator.                                             *)

\* Error objects handed to notify / notifySync or carried by a rejection.
Errors ==
    { [name |-> "Error", message |-> "boom"],
      [name |-> "CustomError", message |-> "failed"],
      [name |-> "NetworkError", message |-> "failed"],
      [name |-> "", message |-> ""] }

\* Arguments of window.onerror: the message and the error object, if any.
RawErrors ==
    { [message |-> "boom", hasError |-> TRUE, name |-> "Error"],
      [message |-> "failed", hasError |-> TRUE, name |-> "CustomError"],
      [message |-> "failed", hasError |-> TRUE, name |-> "NetworkError"],
      [message |-> "Script error.", hasError |-> FALSE, name |-> ""] }

\* event.reason of an unhandled rejection.
Reasons ==
    { [kind |-> "error", name |-> e.name, message |-> e.message] : e \in Errors }
      \cup { [kind |-> "string", name |-> "", message |-> "boom"],
             [kind |-> "other", name |-> "", message |-> ""] }

\* The state of a Client just constructed.
ClientFresh(c) ==
    /\ config' = c
    /\ queue' = <<>>
    /\ sending' = FALSE
    /\ inflight' = {}
    /\ activeDrains' = 0
    /\ nextId' = 1
    /\ accepted' = <<>>
    /\ rejected' = {}
    /\ sent' = <<>>
    /\ last' = NoAttempt
    /\ qn' = NoCall
    /\ burst' = 0
    /\ unhandled' = 0
    /\ flushPc' = "idle"
    /\ flushBefore' = {}

\* A step that calls no method of the Client.
ClientQuiet ==
    /\ last' = NoAttempt
    /\ qn' = NoCall
    /\ UNCHANGED <<config, queue, sending, inflight, activeDrains, nextId,
                   accepted, rejected, sent, burst, unhandled, flushPc,
                   flushBefore>>

handlerVars == <<originalOnError, originalOnUnhandledRejection, windowOnError,
                 windowOnUnhandledRejection>>

\* A step of the Client or of the network: no entry point is called.
SdkQuiet ==
    /\ call' = NoSdkCall
    /\ UNCHANGED <<sdkConfig, client, started, handlerVars, dispatch>>

\* No entry point is running: the event loop is free and no global handler
\* is in the middle of calling itself.
Callable == ~MicrotaskPending /\ dispatch.kind = "none"

\* installErrorHandler
InstallErrorHandler ==
    /\ originalOnError' = windowOnError
    /\ windowOnError' = "sdk"

\* uninstallErrorHandler
UninstallErrorHandler ==
    IF originalOnError # "null"
    THEN /\ windowOnError' = originalOnError
         /\ originalOnError' = "null"
    ELSE UNCHANGED <<windowOnError, originalOnError>>

\* installRejectionHandler
InstallRejectionHandler ==
    /\ originalOnUnhandledRejection' = windowOnUnhandledRejection
    /\ windowOnUnhandledRejection' = "sdk"

\* uninstallRejectionHandler
UninstallRejectionHandler ==
    IF originalOnUnhandledRejection # "null"
    THEN /\ windowOnUnhandledRejection' = originalOnUnhandledRejection
         /\ originalOnUnhandledRejection' = "null"
    ELSE UNCHANGED <<windowOnUnhandledRejection, originalOnUnhandledRejection>>

\* start(), called with the configuration cfg in place
Start(cfg) ==
    IF started
    THEN UNCHANGED <<started, handlerVars>>
    ELSE /\ started' = TRUE
         /\ IF cfg.captureUnhandled
            THEN InstallErrorHandler
            ELSE UNCHANGED <<windowOnError, originalOnError>>
         /\ IF cfg.captureUnhandledRejections
            THEN InstallRejectionHandler
            ELSE UNCHANGED <<windowOnUnhandledRejection,
                             originalOnUnhandledRejection>>

\* The body of stop()
StopBody ==
    IF ~started
    THEN UNCHANGED <<started, handlerVars>>
    ELSE /\ UninstallErrorHandler
         /\ UninstallRejectionHandler
         /\ started' = FALSE

\* configure(options).  One Client is followed at a time: a valid
\* configure() is taken when the Client it replaces has no request pending.
Configure(options) ==
    LET cfg == Configuration(options) IN
    /\ Callable
    /\ sdkConfig' = cfg
    /\ IF ~IsValid(cfg)
       THEN /\ ClientQuiet
            /\ UNCHANGED <<client, started, handlerVars>>
       ELSE /\ inflight = {}
            /\ client' = "set"
            /\ ClientFresh([maxQueueSize |-> cfg.maxQueueSize,
                            useSendBeacon |-> cfg.useSendBeacon])
            /\ Start(cfg)
    /\ call' = [NoSdkCall EXCEPT !.op = "configure"]
    /\ UNCHANGED dispatch

\* stop()
Stop ==
    /\ Callable
    /\ StopBody
    /\ ClientQuiet
    /\ call' = [NoSdkCall EXCEPT !.op = "stop"]
    /\ UNCHANGED <<sdkConfig, client, dispatch>>

\* reset()
Reset ==
    /\ Callable
    /\ inflight = {}
    /\ StopBody
    /\ sdkConfig' = NullConfig
    /\ client' = "null"
    /\ ClientFresh(config)
    /\ call' = [NoSdkCall EXCEPT !.op = "reset"]
    /\ UNCHANGED dispatch

\* The application sets its own global handlers where there are none.
AppInstallsHandlers ==
    /\ Callable
    /\ windowOnError = "null" /\ windowOnUnhandledRejection = "null"
    /\ windowOnError' = "app"
    /\ windowOnUnhandledRejection' = "app"
    /\ ClientQuiet
    /\ call' = NoSdkCall
    /\ UNCHANGED <<sdkConfig, client, started, originalOnError,
                   originalOnUnhandledRejection, dispatch>>

\* The common course of the four entry points after shouldNotify: the
\* ignore-list (where the entry point consults it, with the class and
\* message it passes), then the beforeNotify callbacks.
Decide(consultsIgnoreList, errorClass, message) ==
    IF ~ShouldNotify
    THEN [outcome |-> "inert", invoked |-> <<>>]
    ELSE IF consultsIgnoreList /\ ShouldIgnore(sdkConfig, errorClass, message)
    THEN [outcome |-> "ignored", invoked |-> <<>>]
    ELSE LET cb == RunBeforeNotifyCallbacks IN
         [outcome |-> IF cb.pass THEN "deliver" ELSE "vetoed",
          invoked |-> cb.invoked]

\* The record of an entry point's call for the notice it built.
Called(op, errorClass, message, tags, decision) ==
    [op |-> op, errorClass |-> errorClass, message |-> message, tags |-> tags,
     outcome |-> decision.outcome, invoked |-> decision.invoked,
     id |-> IF decision.outcome = "deliver" THEN nextId ELSE 0,
     threw |-> FALSE]

\* An entry point that ends in client.queueNotice(notice)
Enqueue(op, errorClass, message, tags, decision) ==
    /\ IF decision.outcome = "deliver"
       THEN nextId <= MaxSdkNotices /\ QueueNotice
       ELSE ClientQuiet
    /\ call' = Called(op, errorClass, message, tags, decision)

\* notify(error)
Notify(error) ==
    /\ Callable
    /\ LET errorClass == OrElse(error.name, "Error")
           message == OrElse(error.message, "Unknown error")
       IN Enqueue("notify", errorClass, message, <<>>,
                  Decide(TRUE, errorClass, message))
    /\ UNCHANGED <<sdkConfig, client, started, handlerVars, dispatch>>

\* notifySync(error), with the outcome b of navigator.sendBeacon
NotifySync(error, b) ==
    /\ Callable
    /\ LET errorClass == OrElse(error.name, "Error")
           message == OrElse(error.message, "Unknown error")
           decision == Decide(FALSE, errorClass, message)
       IN /\ IF decision.outcome = "deliver"
             THEN nextId <= MaxSdkNotices /\ SendNotice(b)
             ELSE ClientQuiet
          /\ call' = Called("notifySync", errorClass, message, <<>>, decision)
    /\ UNCHANGED <<sdkConfig, client, started, handlerVars, dispatch>>

\* handleUnhandledError(message, source, lineno, colno, error)
HandleUnhandledError(raw) ==
    LET ignoreClass == IF raw.hasError THEN raw.name ELSE "Error"
        errorClass == IF raw.hasError THEN OrElse(raw.name, "Error") ELSE "Error"
    IN Enqueue("onerror", errorClass, raw.message, <<"unhandled">>,
               Decide(TRUE, ignoreClass, raw.message))

\* Variant of RejectionError: a reason that is no Error becomes a plain
\* Error, its name left as it is.
RejectionErrorUnnamed(reason) ==
    CASE reason.kind = "error" -> [name |-> reason.name, message |-> reason.message]
      [] reason.kind = "string" -> [name |-> "Error", message |-> reason.message]
      [] OTHER -> [name |-> "Error", message |-> "Unhandled Promise rejection"]

\* The Error that handleUnhandledRejection makes of event.reason
RejectionError(reason) ==
    CASE reason.kind = "error" -> [name |-> reason.name, message |-> reason.message]
      [] reason.kind = "string" -> [name |-> "UnhandledRejection",
                                     message |-> reason.message]
      [] OTHER -> [name |-> "UnhandledRejection",
                   message |-> "Unhandled Promise rejection"]

\* handleUnhandledRejection(event)
HandleUnhandledRejection(reason) ==
    LET error == RejectionError(reason) IN
    Enqueue("onunhandledrejection", OrElse(error.name, "Error"),
            OrElse(error.message, "Unknown error"),
            <<"unhandled", "promise-rejection">>,
            Decide(TRUE, error.name, error.message))

\* The browser reports an uncaught error: window.onerror is called.  The
\* handler of the SDK runs handleUnhandledError and then calls
\* originalOnError; when that is a handler of the SDK as well, it runs the
\* same code against the same module state (dispatch).
ErrorSignal(raw) ==
    /\ Callable
    /\ windowOnError = "sdk"
    /\ HandleUnhandledError(raw)
    /\ dispatch' = IF originalOnError = "sdk"
                   THEN [kind |-> "onerror", message |-> raw.message,
                         hasError |-> raw.hasError, name |-> raw.name]
                   ELSE NoDispatch
    /\ UNCHANGED <<sdkConfig, client, started, handlerVars>>

\* The browser reports an unhandled rejection.
RejectionSignal(reason) ==
    /\ Callable
    /\ windowOnUnhandledRejection = "sdk"
    /\ HandleUnhandledRejection(reason)
    /\ dispatch' = IF originalOnUnhandledRejection = "sdk"
                   THEN [kind |-> "onunhandledrejection",
                         message |-> reason.message,
                         hasError |-> reason.kind = "error", name |-> reason.name]
                   ELSE NoDispatch
    /\ UNCHANGED <<sdkConfig, client, started, handlerVars>>

\* A handler of the SDK called as originalOnError calls originalOnError
\* again: one more level of the recursion.
Redispatch ==
    /\ ~MicrotaskPending
    /\ dispatch.kind # "none"
    /\ IF dispatch.kind = "onerror"
       THEN HandleUnhandledError([message |-> dispatch.message,
                                  hasError |-> dispatch.hasError,
                                  name |-> dispatch.name])
       ELSE HandleUnhandledRejection(
                [kind |-> IF dispatch.hasError THEN "error" ELSE "string",
                 name |-> dispatch.name, message |-> dispatch.message])
    /\ UNCHANGED <<sdkConfig, client, started, handlerVars, dispatch>>

\* The recursion has no base case: it ends when the call stack is
\* exhausted, and the RangeError leaves the handler the browser called.
StackOverflow ==
    /\ ~MicrotaskPending
    /\ dispatch.kind # "none"
    /\ dispatch' = NoDispatch
    /\ call' = [NoSdkCall EXCEPT !.op = dispatch.kind, !.threw = TRUE]
    /\ ClientQuiet
    /\ UNCHANGED <<sdkConfig, client, started, handlerVars>>

\* Options of configure() for the lifecycle: a missing key, and with a key
\* the ways the enabled option and the environment decide config.enabled.
LifecycleOptions ==
    {o \in [apiKey : {"", "key"},
            environment : {"production", "development"},
            enabled : {"true", "false", "undefined"},
            ignoredExceptions : {<<>>},
            beforeNotify : {<<>>},
            captureUnhandled : {TRUE},
            captureUnhandledRejections : {TRUE},
            maxQueueSize : {1},
            useSendBeacon : {TRUE}] :
        /\ o.apiKey = "" => o.environment = "production" /\ o.enabled = "undefined"
        /\ o.enabled = "true" => o.environment = "development"
        /\ o.enabled = "false" => o.environment = "production"}

\* The lifecycle does not look into the error: one of each kind.
LifecycleErrors == {e \in Errors : e.name = "Error"}
LifecycleRawErrors == {raw \in RawErrors : raw.name = "Error"}
LifecycleReasons == {reason \in Reasons : reason.kind = "string"}

SdkNext ==
    \/ \E options \in LifecycleOptions : Configure(options) /\ UNCHANGED <<ctxVars, noticeVars>>
    \/ Stop /\ UNCHANGED <<ctxVars, noticeVars>>
    \/ Reset /\ UNCHANGED <<ctxVars, noticeVars>>
    \/ AppInstallsHandlers /\ UNCHANGED <<ctxVars, noticeVars>>
    \/ \E error \in LifecycleErrors : Notify(error) /\ UNCHANGED <<ctxVars, noticeVars>>
    \/ \E error \in LifecycleErrors, b \in BeaconOutcomes : NotifySync(error, b) /\ UNCHANGED <<ctxVars, noticeVars>>
    \/ \E raw \in LifecycleRawErrors : ErrorSignal(raw) /\ UNCHANGED <<ctxVars, noticeVars>>
    \/ \E reason \in LifecycleReasons : RejectionSignal(reason) /\ UNCHANGED <<ctxVars, noticeVars>>
    \/ Redispatch /\ UNCHANGED <<ctxVars, noticeVars>>
    \/ StackOverflow /\ UNCHANGED <<ctxVars, noticeVars>>
    \/ FetchResolve /\ SdkQuiet /\ UNCHANGED <<ctxVars, noticeVars>>
    \/ FetchFail /\ SdkQuiet /\ UNCHANGED <<ctxVars, noticeVars>>
    \/ BodyDone /\ SdkQuiet /\ UNCHANGED <<ctxVars, noticeVars>>

SdkSpec == Init /\ [][SdkNext]_vars

\* Options of configure() for the notice pipeline.
PipelineOptions ==
    [apiKey : {"key"},
     environment : {"production"},
     enabled : {"undefined"},
     ignoredExceptions : {<<>>, <<StringPattern("CustomError")>>,
                          <<RegExpPattern("^Network")>>, <<StringPattern("boom")>>,
                          <<StringPattern("UnhandledRejection")>>},
     beforeNotify : CallbackLists,
     captureUnhandled : {TRUE},
     captureUnhandledRejections : {TRUE},
     maxQueueSize : {1},
     useSendBeacon : {TRUE}]

\* One configure(), then the four entry points while the network is silent.
PipelineNext ==
    \/ \E options \in PipelineOptions : sdkConfig.isNull /\ Configure(options) /\ UNCHANGED <<ctxVars, noticeVars>>
    \/ \E error \in Errors : Notify(error) /\ UNCHANGED <<ctxVars, noticeVars>>
    \/ \E error \in Errors, b \in BeaconOutcomes : NotifySync(error, b) /\ UNCHANGED <<ctxVars, noticeVars>>
    \/ \E raw \in RawErrors : ErrorSignal(raw) /\ UNCHANGED <<ctxVars, noticeVars>>
    \/ \E reason \in Reasons : RejectionSignal(reason) /\ UNCHANGED <<ctxVars, noticeVars>>

PipelineSpec == Init /\ [][PipelineNext]_vars

----------------------------------------------------------------------------
(* index.ts: context management.                                           *)

\* The payloads that wait, with the note that the module variables were
\* given other contents (changed) while they waited.
WhileWaiting(changed) ==
    [i \in DOMAIN pending |->
        [pending[i] EXCEPT !.globalsChanged = @ \/ changed]]

\* setContext(context)
SetContext(context) ==
    /\ globalContext' = Spread(globalContext, context)
    /\ held' = Reassigned("context")
    /\ expectedContext' = Spread(expectedContext, context)
    /\ ctxOp' = "setContext"
    /\ observed' = NoObservation
    /\ pending' = WhileWaiting(globalContext' # globalContext)
    /\ wire' = NoWire
    /\ UNCHANGED <<globalUser, expectedUser>>

\* setUser(user)
SetUser(user) ==
    /\ globalUser' = Spread(globalUser, user)
    /\ held' = Reassigned("user")
    /\ expectedUser' = Spread(expectedUser, user)
    /\ ctxOp' = "setUser"
    /\ observed' = NoObservation
    /\ pending' = WhileWaiting(globalUser' # globalUser)
    /\ wire' = NoWire
    /\ UNCHANGED <<globalContext, expectedContext>>

\* getContext(); the caller keeps the object returned
GetContext ==
    /\ held' = ReturnedCopy("context", globalContext)
    /\ ctxOp' = "getContext"
    /\ observed' = NoObservation
    /\ UNCHANGED <<globalContext, globalUser, expectedContext, expectedUser,
                   pending, wire>>

\* getUser(); the caller keeps the object returned
GetUser ==
    /\ held' = ReturnedCopy("user", globalUser)
    /\ ctxOp' = "getUser"
    /\ observed' = NoObservation
    /\ UNCHANGED <<globalContext, globalUser, expectedContext, expectedUser,
                   pending, wire>>

\* clear()
Clear ==
    /\ globalContext' = EmptyMapping
    /\ globalUser' = EmptyMapping
    /\ held' = IF held.internal
               THEN [of |-> held.of, internal |-> FALSE, props |-> HeldProps]
               ELSE held
    /\ expectedContext' = EmptyMapping
    /\ expectedUser' = EmptyMapping
    /\ ctxOp' = "clear"
    /\ observed' = NoObservation
    /\ pending' = WhileWaiting(globalContext # EmptyMapping \/ globalUser # EmptyMapping)
    /\ wire' = NoWire

\* The caller sets (v # 0) or deletes (v = 0) property k of the object an
\* accessor returned to it.
MutateReturned(k, v) ==
    /\ held.of # "none"
    /\ HeldProps[k] # v
    /\ IF ~held.internal
       THEN /\ held' = [held EXCEPT !.props[k] = v]
            /\ UNCHANGED <<globalContext, globalUser>>
       ELSE IF held.of = "context"
       THEN /\ globalContext' = [globalContext EXCEPT ![k] = v]
            /\ UNCHANGED <<globalUser, held>>
       ELSE /\ globalUser' = [globalUser EXCEPT ![k] = v]
            /\ UNCHANGED <<globalContext, held>>
    /\ ctxOp' = "mutate"
    /\ observed' = NoObservation
    /\ UNCHANGED <<expectedContext, expectedUser, pending, wire>>

\* notify / notifySync: { ...globalContext, ...options.context } and
\* { ...globalUser, ...options.user }, here without per-call options
NotifyMerges ==
    /\ observed' = [made |-> TRUE,
                    context |-> Spread(globalContext, EmptyMapping),
                    user |-> Spread(globalUser, EmptyMapping)]
    /\ ctxOp' = "notify"
    /\ UNCHANGED <<globalContext, globalUser, held, expectedContext,
                   expectedUser, pending, wire>>

ContextNext ==
    \/ \E context \in Mappings : SetContext(context) /\ UNCHANGED <<clientVars, sdkVars, noticeVars>>
    \/ \E user \in Mappings : SetUser(user) /\ UNCHANGED <<clientVars, sdkVars, noticeVars>>
    \/ GetContext /\ UNCHANGED <<clientVars, sdkVars, noticeVars>>
    \/ GetUser /\ UNCHANGED <<clientVars, sdkVars, noticeVars>>
    \/ Clear /\ UNCHANGED <<clientVars, sdkVars, noticeVars>>
    \/ \E k \in Keys, v \in Values : MutateReturned(k, v) /\ UNCHANGED <<clientVars, sdkVars, noticeVars>>
    \/ NotifyMerges /\ UNCHANGED <<clientVars, sdkVars, noticeVars>>

ContextSpec == Init /\ [][ContextNext]_vars

\* What setContext / setUser are called with, and the per-call options of
\* notify.  None of the keys is on the sanitizer's list.
GlobalContexts == {EmptyMapping, [id |-> 1, plan |-> 0], [id |-> 2, plan |-> 1]}
GlobalUsers == {EmptyMapping, [id |-> 1, plan |-> 0]}
OptionContexts == {EmptyMapping, [id |-> 1, plan |-> 0]}
OptionUsers == {EmptyMapping, [id |-> 2, plan |-> 0]}

\* sanitize(data): keys that are not on the list pass through
Sanitize(data) == data

\* The context or user a caller expects: the per-call value where there is
\* one, the global one elsewhere.
Overridden(global, option) ==
    [k \in Keys |-> IF option[k] = 0 THEN global[k] ELSE option[k]]

\* Variant of MergedAtNotify: the global value wins.
MergedGlobalFirst(global, option) == Sanitize(Spread(option, global))

\* notify: sanitize({ ...globalContext, ...options.context }), a new object
MergedAtNotify(global, option) == Sanitize(Spread(global, option))

\* notify({context, user}) with an error that is neither ignored nor
\* vetoed: createNotice, then queueNotice pushes toPayload(notice) unless
\* the queue is full.  toPayload copies the context and passes the user
\* object on; the environment key it adds is left out here.
NotifyQueues(context, user) ==
    /\ pending' =
          IF Len(pending) >= MaxPending THEN pending
          ELSE Append(pending,
                      [context |-> Spread(MergedAtNotify(globalContext, context),
                                          EmptyMapping),
                       user |-> MergedAtNotify(globalUser, user),
                       expectedContext |-> Overridden(globalContext, context),
                       expectedUser |-> Overridden(globalUser, user),
                       globalsChanged |-> FALSE])
    /\ ctxOp' = "notify"
    /\ observed' = NoObservation
    /\ wire' = NoWire
    /\ UNCHANGED <<globalContext, globalUser, held, expectedContext,
                   expectedUser>>

\* processQueue takes the head of the queue and the transport serialises
\* it: JSON.stringify(payload)
TransmitPayload ==
    /\ pending # <<>>
    /\ wire' = [sent |-> TRUE,
                context |-> Head(pending).context,
                user |-> Head(pending).user,
                expectedContext |-> Head(pending).expectedContext,
                expectedUser |-> Head(pending).expectedUser,
                globalsChanged |-> Head(pending).globalsChanged]
    /\ pending' = Tail(pending)
    /\ ctxOp' = "transmit"
    /\ observed' = NoObservation
    /\ UNCHANGED <<globalContext, globalUser, held, expectedContext,
                   expectedUser>>

SnapshotNext ==
    \/ \E context \in GlobalContexts : SetContext(context) /\ UNCHANGED <<clientVars, sdkVars, noticeVars>>
    \/ \E user \in GlobalUsers : SetUser(user) /\ UNCHANGED <<clientVars, sdkVars, noticeVars>>
    \/ Clear /\ UNCHANGED <<clientVars, sdkVars, noticeVars>>
    \/ \E context \in OptionContexts, user \in OptionUsers : NotifyQueues(context, user) /\ UNCHANGED <<clientVars, sdkVars, noticeVars>>
    \/ TransmitPayload /\ UNCHANGED <<clientVars, sdkVars, noticeVars>>

SnapshotSpec == Init /\ [][SnapshotNext]_vars

----------------------------------------------------------------------------
(* notice.ts.  A string is the sequence of its characters.                 *)

MAX_MESSAGE_LENGTH == 10000

Chars == {"a", "."}
Ellipsis == <<".", ".", ".">>
UnknownError == <<"U", "n", "k", "n", "o", "w", "n", " ", "e", "r", "r", "o", "r">>

MessageLengths ==
    (0..MaxShortMessage)
      \cup ((MAX_MESSAGE_LENGTH - MessageMargin)..(MAX_MESSAGE_LENGTH + MessageMargin))

\* The message of the given length made of the character fill, ending in
\* the character end.
Message(length, fill, end) == [i \in 1..length |-> IF i = length THEN end ELSE fill]

Messages == {Message(n, fill, end) : n \in MessageLengths, fill \in Chars, end \in Chars}

\* message.substring(0, n)
Substring(message, n) == SubSeq(message, 1, IF n < Len(message) THEN n ELSE Len(message))

\* Variant of TruncateMessage: the marker is appended to the first
\* MAX_MESSAGE_LENGTH characters.
TruncateMessageAppends(message) ==
    IF Len(message) = 0 THEN <<>>
    ELSE IF Len(message) <= MAX_MESSAGE_LENGTH THEN message
    ELSE Substring(message, MAX_MESSAGE_LENGTH) \o Ellipsis

\* truncateMessage(message)
TruncateMessage(message) ==
    IF Len(message) = 0 THEN <<>>
    ELSE IF Len(message) <= MAX_MESSAGE_LENGTH THEN message
    ELSE Substring(message, MAX_MESSAGE_LENGTH - 3) \o Ellipsis

MAX_BACKTRACE_LINES == 100

\* A line of a stack trace or a frame of a backtrace.  A stack line is a
\* frame ("at f (app.js:1:2)", "f@app.js:1:2"), other text, or blank.
StackLine(kind) == [kind |-> kind, source |-> "", line |-> 0, col |-> 0]

\* `${source}:${lineno ?? 0}:${colno ?? 0}`; -1 stands for undefined
Location(source, lineno, colno) ==
    [kind |-> "location", source |-> source,
     line |-> IF lineno = -1 THEN 0 ELSE lineno,
     col |-> IF colno = -1 THEN 0 ELSE colno]

StackLengths ==
    (0..MaxShortStack)
      \cup ((MAX_BACKTRACE_LINES - 1)..(MAX_BACKTRACE_LINES + MaxExtraLines))

\* error.stack split into lines; the empty sequence stands for a missing
\* or empty stack.
Stack(length, first, fill) ==
    [i \in 1..length |-> StackLine(IF i = 1 THEN first ELSE fill)]

Stacks == {Stack(n, first, fill) : n \in StackLengths, first \in {"text", "frame"},
                                   fill \in {"frame", "text", "blank"}}

\* The error argument: missing, or an object with its stack.
ErrorObjects == {NoErrorObject} \cup {[present |-> TRUE, stack |-> st] : st \in Stacks}

\* source "" stands for a missing or empty source.
RawArgs == [source : {"", "app.js"}, lineno : {-1, 42}, colno : {-1, 10},
            error : ErrorObjects]

IsFrameLine(l) == l.kind = "frame"
IsNotBlank(l) == l.kind # "blank"

\* array.slice(0, n)
Slice(lines, n) == SubSeq(lines, 1, IF n < Len(lines) THEN n ELSE Len(lines))

\* parseBacktrace(stack)
ParseBacktrace(stack) ==
    IF Len(stack) = 0 THEN <<>>
    ELSE LET frames == Slice(SelectSeq(stack, IsFrameLine), MAX_BACKTRACE_LINES) IN
         IF Len(frames) = 0
         THEN SelectSeq(Slice(stack, MAX_BACKTRACE_LINES), IsNotBlank)
         ELSE frames

\* createNoticeFromRaw: if (error) ... else if (source) ...
RawBacktrace(args) ==
    IF args.error.present THEN ParseBacktrace(args.error.stack)
    ELSE IF args.source # "" THEN <<Location(args.source, args.lineno, args.colno)>>
    ELSE <<>>

\* createNotice(error): the message and backtrace of the Notice
CreateNotice(message, stack) ==
    /\ noticeOp' = "createNotice"
    /\ noticeInput' = message
    /\ noticeArgs' = [NoRawArgs EXCEPT !.error = [present |-> TRUE, stack |-> stack]]
    /\ noticeMessage' = TruncateMessage(IF Len(message) = 0 THEN UnknownError
                                        ELSE message)
    /\ noticeBacktrace' = ParseBacktrace(stack)
    /\ UNCHANGED payloadCall

\* createNoticeFromRaw(message, source, lineno, colno, error): the message
\* and backtrace of the Notice
CreateNoticeFromRaw(message, args) ==
    /\ noticeOp' = "createNoticeFromRaw"
    /\ noticeInput' = message
    /\ noticeArgs' = args
    /\ noticeMessage' = TruncateMessage(message)
    /\ noticeBacktrace' = RawBacktrace(args)
    /\ UNCHANGED payloadCall

\* The two functions on messages of all lengths, without a stack.
NoticeNext ==
    \/ \E message \in Messages : CreateNotice(message, <<>>) /\ UNCHANGED <<clientVars, sdkVars, ctxVars>>
    \/ \E message \in Messages : CreateNoticeFromRaw(message, NoRawArgs) /\ UNCHANGED <<clientVars, sdkVars, ctxVars>>

NoticeSpec == Init /\ [][NoticeNext]_vars

\* The two functions on one short message, with all stacks and locations.
BacktraceNext ==
    \/ \E st \in Stacks : CreateNotice(<<"a">>, st) /\ UNCHANGED <<clientVars, sdkVars, ctxVars>>
    \/ \E args \in RawArgs : CreateNoticeFromRaw(<<"a">>, args) /\ UNCHANGED <<clientVars, sdkVars, ctxVars>>

BacktraceSpec == Init /\ [][BacktraceNext]_vars

\* The fields of a Notice that toPayload reads.  A context is an object
\* with any of the keys "environment" and "page".
Tags == {[i \in 1..n |-> "tag"] : n \in 0..MaxTags}
Contexts == UNION {[d -> {"staging", "production"}] : d \in SUBSET {"environment", "page"}}
Notices == [errorClass : {"Error"}, tags : Tags, context : Contexts,
            environment : {Undefined, "", "production"},
            request : {Undefined, "/cart"}, user : {Undefined, "u1"}]

\* { ...a, ...b }
ObjectSpread(a, b) ==
    [k \in DOMAIN a \cup DOMAIN b |-> IF k \in DOMAIN b THEN b[k] ELSE a[k]]

\* notice.environment ? ... : ...  (undefined and '' are falsy)
Truthy(value) == value # Undefined /\ value # ""

\* toPayload(notice); a field set to undefined is left out of the payload
ToPayload(notice) ==
    [error |-> IF Len(notice.tags) > 0
               THEN [class |-> notice.errorClass, tags |-> notice.tags]
               ELSE [class |-> notice.errorClass],
     context |-> ObjectSpread(notice.context,
                              IF Truthy(notice.environment)
                              THEN [environment |-> notice.environment]
                              ELSE <<>>),
     request |-> notice.request,
     user |-> notice.user,
     notifier |-> "@checkend/browser"]

\* toPayload called twice on one Notice
ToPayloadTwice(notice) ==
    /\ noticeOp' = "toPayload"
    /\ payloadCall' = [notice |-> notice, after |-> notice,
                       first |-> ToPayload(notice), second |-> ToPayload(notice)]
    /\ UNCHANGED <<noticeInput, noticeMessage, noticeArgs, noticeBacktrace>>

PayloadNext ==
    \/ \E notice \in Notices : ToPayloadTwice(notice) /\ UNCHANGED <<clientVars, sdkVars, ctxVars>>

PayloadSpec == Init /\ [][PayloadNext]_vars

----------------------------------------------------------------------------
(* Properties of the delivery queue and transport.                         *)

DrainRequests == {r \in inflight : r.caller # "sendNotice"}

\* C1: the queue never holds more than config.maxQueueSize entries, and a
\* queueNotice call made on a full queue returns false and leaves the queue
\* exactly as it was.
QueueNeverExceedsCapacity ==
    /\ Len(queue) <= config.maxQueueSize
    /\ (qn.called /\ Len(qn.before) >= config.maxQueueSize)
           => (~qn.ret /\ queue = qn.before)

\* A call was dropped by a full queue of at least one entry.
FullQueueDropped ==
    /\ qn.called /\ ~qn.ret
    /\ config.maxQueueSize > 0
    /\ Len(queue) = config.maxQueueSize

\* C2 as stated: from an idle, empty client and without a transport
\* completion, the call after maxQueueSize accepted calls returns false with
\* the queue at maxQueueSize, and its payload is never transmitted.
RejectedAfterCapacityAccepted ==
    (qn.called /\ qn.pre = config.maxQueueSize)
        => /\ ~qn.ret
           /\ Len(queue) = config.maxQueueSize
           /\ qn.id \notin Range(sent)

\* C2 amended: the first accepted payload leaves the queue for the transport
\* at once, so the call after maxQueueSize + 1 accepted calls is the one that
\* returns false with the queue at maxQueueSize; no dropped payload is ever
\* transmitted.
RejectedAfterCapacityPlusOne ==
    /\ (qn.called /\ qn.pre = config.maxQueueSize + 1)
           => (~qn.ret /\ Len(queue) = config.maxQueueSize)
    /\ rejected \cap Range(sent) = {}

\* The call after maxQueueSize + 1 accepted calls in a row was dropped.
BurstOverflowed ==
    /\ qn.called /\ ~qn.ret
    /\ config.maxQueueSize >= 1
    /\ qn.pre = config.maxQueueSize + 1
    /\ qn.id \in rejected

\* C3: the transmissions the drain has started are the accepted payloads in
\* acceptance order, and the queue holds the rest in the same order.
DrainIsFifo == accepted = sent \o queue

\* Three payloads, some accepted while the drain was suspended, were all
\* transmitted.
ThreeDrainedInOrder == Len(sent) >= 3 /\ sent = accepted

\* C4: at most one processQueue loop is active and at most one transmission
\* of the queue is in flight; a trigger that finds the sending flag set pops
\* nothing and starts no transmission.
SingleFlightDrain ==
    /\ [](activeDrains <= 1 /\ Cardinality(DrainRequests) <= 1)
    /\ [][(sending /\ (QueueNotice \/ Flush \/ FlushResume))
            => /\ sent' = sent
               /\ inflight' = inflight
               /\ activeDrains' = activeDrains
               /\ \/ queue' = queue
                  \/ queue' = Append(queue, nextId)]_vars

\* A payload was accepted while the drain was suspended on a transmission.
TriggeredWhileSending ==
    /\ qn.called /\ qn.ret
    /\ sending /\ activeDrains = 1
    /\ Len(queue) >= 1 /\ Len(sent) >= 1

\* C5: no accepted payload is handed to the transport twice.
NoPayloadSentTwice ==
    \A i, j \in 1..Len(sent) : i # j => sent[i] # sent[j]

\* The drain went on to a second payload after a failed attempt.
SentNextAfterFailure ==
    /\ Len(sent) >= 2
    /\ last.caller = "queueNotice" /\ last.result = "null"
    /\ last.id = sent[Len(sent) - 1]

\* C6: every accepted payload eventually has its transmission started.
EveryAcceptedIsAttempted ==
    \A p \in 1..MaxNotices : (p \in Range(accepted)) ~> (p \in Range(sent))

\* C7: at the step where flush resolves, the queue is empty and no payload
\* accepted before the flush call is still in flight.
FlushResolvesAfterCompletion ==
    [][/\ (Flush /\ flushPc' = "idle")
           => /\ queue' = <<>>
              /\ \A r \in DrainRequests' : r.id \notin Range(accepted)
       /\ (FlushResume /\ flushPc' = "idle")
           => /\ queue' = <<>>
              /\ \A r \in DrainRequests' : r.id \notin flushBefore]_vars

\* C8: a flush call that has not returned eventually resolves.
FlushTerminates == (flushPc \in {"spin", "wait"}) ~> (flushPc = "idle")

\* C9: an attempt of the confirmable transport that ends with a status other
\* than 201, a timeout or a network error resolves to null; it is never
\* rejected and never yields an acknowledgment.
NonCreatedYieldsNull ==
    (last.kind \in {"response", "timeout", "network"})
        => /\ (last.kind # "response" \/ last.status # 201) => last.result = "null"
           /\ last.result = "ack" => (last.kind = "response" /\ last.status = 201)

\* A rate-limited attempt whose body could not be read resolved to null.
RateLimitedUnreadable ==
    /\ last.kind = "response" /\ last.status = 429
    /\ last.body = "unreadable" /\ last.result = "null"

\* C10: no rejection escapes: no unhandled rejection from notify or the
\* drain, and no rejected promise from sendNotice or flush.
NothingEscapes ==
    /\ unhandled = 0
    /\ last.result # "reject"
    /\ flushPc # "rejected"

\* C11: a payload whose attempt failed is not in the queue and not in flight
\* again, and no payload handed to the transport is back in the queue.
NoRetryAfterFailure ==
    /\ Range(sent) \cap Range(queue) = {}
    /\ (last.caller \in {"queueNotice", "flush"} /\ last.result = "null")
           => /\ last.id \notin Range(queue)
              /\ \A r \in inflight : r.id # last.id

\* A timed out attempt ended the drain: nothing is queued or in flight.
TimedOutAndDropped ==
    /\ last.caller = "queueNotice" /\ last.kind = "timeout"
    /\ last.id \in Range(sent)
    /\ queue = <<>> /\ ~sending /\ DrainRequests = {}

\* C12: every pending attempt of the confirmable transport has its abort
\* timer armed, so that a server that stalls is cut off by the timeout.
EveryAttemptHasTimeout == \A r \in inflight : TimeoutArmed(r)

\* C13: sendNotice makes no fetch request and resolves to null when the
\* beacon is enabled and accepts the payload, and makes exactly one fetch
\* request in every other case.
TransportSelection ==
    /\ [](last.kind = "beacon"
            => /\ last.caller = "sendNotice" /\ last.result = "null"
               /\ \A r \in inflight : r.id # last.id)
    /\ [][\A b \in BeaconOutcomes :
            SendNotice(b)
              => IF config.useSendBeacon /\ b = "accepted"
                 THEN inflight' = inflight /\ last'.kind = "beacon"
                 ELSE /\ inflight' \ inflight = {Request(nextId, "sendNotice")}
                      /\ last'.kind # "beacon"]_vars

\* The beacon took a notice of sendNotice.
BeaconAccepted ==
    /\ config.useSendBeacon
    /\ last.kind = "beacon" /\ last.caller = "sendNotice"

\* C22: whenever no drain is in progress (the flag is false and no
\* processQueue loop is suspended), the queue is empty.
IdleMeansEmpty == (~sending /\ activeDrains = 0) => queue = <<>>

\* Witness of C22: a drain that sent two payloads has ended.
IdleAfterDrain ==
    /\ ~sending /\ activeDrains = 0
    /\ Len(sent) >= 2
    /\ last.caller = "queueNotice" /\ last.id = sent[Len(sent)]

\* C23: a sendNotice call and the completion of its request leave the
\* queue, the flag and the drain's transmissions as they are; the queue
\* changes only by an append at the tail (queueNotice) or the removal of
\* its head (processQueue).
SendNoticeBypassesQueue ==
    /\ [][(\E b \in BeaconOutcomes : SendNotice(b))
            => UNCHANGED <<queue, sending, sent, accepted, rejected, activeDrains>>]_vars
    /\ [][last'.caller = "sendNotice"
            => UNCHANGED <<queue, sending, sent, accepted, rejected, activeDrains>>]_vars
    /\ [][queue' # queue
            => \/ qn'.called /\ queue' = Append(queue, qn'.id)
               \/ queue # <<>> /\ queue' = Tail(queue)
                    /\ sent' = Append(sent, Head(queue))]_vars

\* Witness of C23: a sendNotice request completed while payloads wait in
\* the queue behind a drain.
DirectCompletedDuringDrain ==
    /\ last.caller = "sendNotice" /\ last.kind # "beacon"
    /\ sending /\ queue # <<>>

\* C26: whenever the flag is true, a processQueue loop is there to clear it.
SendingHasActiveDrain == sending => activeDrains > 0

\* The attempt completed by the step is one of the drain and failed:
\* a status other than 201, the timeout, a network error.
DrainAttemptFailed ==
    /\ last'.caller \in {"queueNotice", "flush"}
    /\ \/ last'.kind \in {"timeout", "network"}
       \/ last'.kind = "response" /\ last'.status # 201

\* C27: when an attempt of the drain fails, the same step hands the next
\* queued payload to the transport with the flag still true; the flag is
\* cleared only once the queue is empty.
FailureKeepsDraining ==
    [][DrainAttemptFailed
         => IF queue # <<>>
            THEN /\ sending'
                 /\ queue' = Tail(queue)
                 /\ sent' = Append(sent, Head(queue))
                 /\ \E r \in inflight' : r.id = Head(queue) /\ r.phase = "fetch"
            ELSE ~sending' /\ queue' = <<>>]_vars

\* Witness of C27: after a 500 the drain went on to the next payload.
NextSentAfterServerError ==
    /\ last.caller = "queueNotice"
    /\ last.kind = "response" /\ last.status = 500
    /\ Len(sent) >= 2 /\ last.id = sent[Len(sent) - 1]
    /\ sending
    /\ \E r \in inflight : r.id = sent[Len(sent)]

----------------------------------------------------------------------------
(* Properties of the notice pipeline (index.ts).                           *)

EntryPoints == {"notify", "notifySync", "onerror", "onunhandledrejection"}

\* The step is a call of an entry point for an error.
EntryPointCalled == call'.op \in EntryPoints

\* The step neither enqueues a notice nor hands one to a transport.
NothingDelivered ==
    /\ UNCHANGED <<queue, inflight, accepted, rejected, sent, nextId>>
    /\ ~qn'.called
    /\ last'.kind # "beacon"

\* The step hands a notice to the queue or to a transport.
SomethingDelivered ==
    \/ qn'.called
    \/ inflight' # inflight
    \/ last'.kind = "beacon"

\* C14: an error whose class or message matches an entry of the ignore-list
\* is neither enqueued nor handed to a transport, whichever of the four
\* entry points it comes through.
IgnoredNeverDelivered ==
    [][(EntryPointCalled
          /\ ~sdkConfig.isNull
          /\ ShouldIgnore(sdkConfig, call'.errorClass, call'.message))
         => NothingDelivered]_vars

\* The step is a call of an entry point that got past shouldNotify and the
\* ignore-list, so that the beforeNotify callbacks are run.
CallbacksRun ==
    /\ EntryPointCalled
    /\ ShouldNotify
    /\ call'.outcome # "ignored"

\* The positions of the registered callbacks that return false.
Vetoes == {i \in 1..Len(sdkConfig.beforeNotify) : sdkConfig.beforeNotify[i] = "false"}

\* C15: the callbacks run in registration order; the first one that returns
\* exactly false is the last one invoked and nothing is enqueued or handed
\* to a transport; with no such callback (true, undefined, null, a throw)
\* all are invoked and the notice goes on to the Client.
FirstFalseHalts ==
    [][CallbacksRun
         => IF Vetoes # {}
            THEN /\ \E f \in Vetoes :
                       /\ \A i \in Vetoes : f <= i
                       /\ call'.invoked = [k \in 1..f |-> k]
                 /\ NothingDelivered
            ELSE /\ call'.invoked = [k \in 1..Len(sdkConfig.beforeNotify) |-> k]
                 /\ SomethingDelivered]_vars

\* Witness of C15: notifySync with callbacks returning undefined, then false.
VetoedAfterUndefined ==
    /\ call.op = "notifySync"
    /\ ~sdkConfig.isNull
    /\ sdkConfig.beforeNotify = <<"undefined", "false">>
    /\ call.invoked = <<1, 2>>
    /\ call.outcome = "vetoed"
    /\ inflight = {}

\* C16: a callback that throws is not a veto and ends nothing: the entry
\* point does not throw, every callback not preceded by one returning false
\* is invoked, in order, and with no callback returning false the notice
\* goes on to the Client.
ThrowingCallbackIsolated ==
    [][(CallbacksRun
          /\ \E i \in 1..Len(sdkConfig.beforeNotify) :
                sdkConfig.beforeNotify[i] = "throws")
         => /\ ~call'.threw
            /\ \A j \in 1..Len(sdkConfig.beforeNotify) :
                  (\A k \in 1..(j - 1) : k \notin Vetoes)
                     => /\ j <= Len(call'.invoked)
                        /\ call'.invoked[j] = j
            /\ Vetoes = {} => SomethingDelivered]_vars

\* Witness of C16: the first callback throws, the second still runs and the
\* notice is enqueued.
DeliveredAfterThrow ==
    /\ call.op = "notify"
    /\ ~sdkConfig.isNull
    /\ sdkConfig.beforeNotify = <<"throws", "true">>
    /\ call.invoked = <<1, 2>>
    /\ qn.called /\ qn.ret

----------------------------------------------------------------------------
(* Properties of the lifecycle (index.ts).                                 *)

\* C17: while the configuration in place has enabled = false, no call of
\* notify or notifySync and no global signal enqueues a notice or hands one
\* to a transport; each returns at shouldNotify (notifySync with null).
DisabledIsInert ==
    [][(EntryPointCalled
          /\ ~sdkConfig.isNull
          /\ sdkConfig.enabledOption = "false")
         => /\ NothingDelivered
            /\ call'.op = "notifySync" => call'.outcome = "inert"]_vars

\* Witness of C17: notifySync on a started, valid production configuration
\* with enabled = false.
DisabledNotifySyncNull ==
    /\ call.op = "notifySync" /\ call.outcome = "inert"
    /\ ~sdkConfig.isNull
    /\ sdkConfig.enabledOption = "false"
    /\ sdkConfig.environment = "production"
    /\ IsValid(sdkConfig) /\ started /\ client = "set"

\* C18: while the configuration in place is the one of a configure() call
\* with an empty apiKey, no call of notify or notifySync and no global
\* signal enqueues a notice, hands one to a transport, or throws.
InvalidConfigIsInert ==
    [][(EntryPointCalled
          /\ ~sdkConfig.isNull
          /\ sdkConfig.apiKey = "")
         => /\ NothingDelivered
            /\ ~call'.threw]_vars

----------------------------------------------------------------------------
(* Properties of the context management (index.ts).                        *)

\* C19: whatever the caller does to the objects getContext / getUser
\* returned, the internal context and user are the ones setContext /
\* setUser / clear built, an accessor returns exactly those, and notify
\* merges exactly those.
CopyOnRead ==
    /\ globalContext = expectedContext
    /\ globalUser = expectedUser
    /\ ctxOp = "getContext" => HeldProps = expectedContext
    /\ ctxOp = "getUser" => HeldProps = expectedUser
    /\ observed.made => /\ observed.context = expectedContext
                        /\ observed.user = expectedUser

\* Witness of C19: the caller has changed the object getContext returned,
\* which now differs from a non-empty internal context.
ReturnedContextMutated ==
    /\ ctxOp = "mutate"
    /\ held.of = "context"
    /\ expectedContext # EmptyMapping
    /\ HeldProps # globalContext

----------------------------------------------------------------------------
(* Properties of the notice functions (notice.ts).                         *)

\* The Notice's message has exactly the cap's length and ends in the marker.
CutToCap ==
    /\ Len(noticeMessage) = MAX_MESSAGE_LENGTH
    /\ SubSeq(noticeMessage, MAX_MESSAGE_LENGTH - 2, MAX_MESSAGE_LENGTH) = Ellipsis

\* C20: a message longer than the cap is cut to exactly the cap's length
\* and ends in the marker "..."; any message at or under the cap is the
\* Notice's message unchanged.
TruncationOrUnchanged ==
    noticeOp # "none"
       => IF Len(noticeInput) > MAX_MESSAGE_LENGTH
          THEN CutToCap
          ELSE noticeMessage = noticeInput

\* C20, amended: as above for non-empty messages; the empty message of an
\* Error becomes "Unknown error", the empty raw message stays empty.
TruncationOrUnchangedUnlessEmpty ==
    noticeOp # "none"
       => IF Len(noticeInput) > MAX_MESSAGE_LENGTH
          THEN /\ CutToCap
               /\ SubSeq(noticeMessage, 1, MAX_MESSAGE_LENGTH - 3)
                     = SubSeq(noticeInput, 1, MAX_MESSAGE_LENGTH - 3)
          ELSE IF Len(noticeInput) = 0 /\ noticeOp = "createNotice"
          THEN noticeMessage = UnknownError
          ELSE noticeMessage = noticeInput

\* Witness of C20: a message one character over the cap was cut.
OneOverCapCut ==
    /\ noticeOp = "createNotice"
    /\ Len(noticeInput) = MAX_MESSAGE_LENGTH + 1
    /\ noticeMessage # noticeInput

----------------------------------------------------------------------------
(* Properties of the global handlers (index.ts).                           *)

\* C25: a notice built by a global handler carries the tag "unhandled"; a
\* rejection whose reason is a string is handled as an error of class
\* "UnhandledRejection" with that string as message, any other reason that
\* is no Error as an error of class "UnhandledRejection", and it is this
\* class and message that the ignore-list is asked about.
RawSignalsNormalized ==
    /\ [][(call'.op \in {"onerror", "onunhandledrejection"}
             /\ call'.outcome = "deliver")
            => /\ Len(call'.tags) > 0
               /\ call'.tags[1] = "unhandled"]_vars
    /\ [][\A reason \in Reasons :
            (RejectionSignal(reason) /\ reason.kind # "error" /\ ShouldNotify)
              => /\ call'.errorClass = "UnhandledRejection"
                 /\ reason.kind = "string" => call'.message = reason.message
                 /\ call'.outcome = "ignored"
                      <=> ShouldIgnore(sdkConfig, "UnhandledRejection",
                                       call'.message)]_vars

\* Witness of C25: the rejection of a string reason was dropped by an
\* ignore-list that names the class "UnhandledRejection".
StringRejectionIgnoredByClass ==
    /\ call.op = "onunhandledrejection"
    /\ call.errorClass = "UnhandledRejection" /\ call.message = "boom"
    /\ call.outcome = "ignored"
    /\ ~sdkConfig.isNull
    /\ sdkConfig.ignoredExceptions[Len(sdkConfig.ignoredExceptions)]
          = StringPattern("UnhandledRejection")

\* C28: while the SDK is not started (never configured, stopped or reset),
\* the SDK's own handlers are not the ones installed.
StoppedMeansUninstalled ==
    ~started => /\ windowOnError # "sdk"
                /\ windowOnUnhandledRejection # "sdk"

\* C29: one signal runs the pipeline once: no handler of the SDK is ever
\* about to be called again, by itself, for the signal it has just handled.
SignalHandledOnce == dispatch.kind = "none"


\* The step replaces the Client: a valid configure() or reset().
ClientReplaced ==
    /\ client = "set"
    /\ \/ call'.op = "reset"
       \/ call'.op = "configure" /\ IsValid(sdkConfig')

\* C30: a Client that is replaced, with none of its requests pending and
\* so no drain left to run, has handed every payload it accepted to the
\* transport.
ReplacedClientHadDrained ==
    [][ClientReplaced => Range(accepted) \subseteq Range(sent)]_vars

----------------------------------------------------------------------------
(* Properties of the backtrace (notice.ts).                                *)

\* C24: for a raw signal without a stack trace (no error object, or one
\* without a stack) the backtrace is the single frame made of the source
\* location if there is a source, and empty if there is none; a backtrace
\* never has more than 100 frames.
RawBacktraceDerived ==
    noticeOp = "createNoticeFromRaw"
       => /\ Len(noticeBacktrace) <= MAX_BACKTRACE_LINES
          /\ Len(noticeArgs.error.stack) = 0
                => noticeBacktrace =
                      IF noticeArgs.source # ""
                      THEN <<Location(noticeArgs.source, noticeArgs.lineno,
                                      noticeArgs.colno)>>
                      ELSE <<>>

----------------------------------------------------------------------------
(* Properties of the payload (notice.ts).                                  *)

\* C21: toPayload leaves the Notice as it was; error.tags is the notice's
\* tags when there are any and is left out when there are none;
\* context.environment is the notice's environment whenever the notice has
\* one, and the context is otherwise the notice's context; request and user
\* are passed through; a second call returns an equal payload.
PayloadMapsNotice ==
    noticeOp = "toPayload"
       => LET notice == payloadCall.notice
              payload == payloadCall.first
          IN /\ payloadCall.after = notice
             /\ ("tags" \in DOMAIN payload.error) <=> Len(notice.tags) > 0
             /\ Len(notice.tags) > 0 => payload.error.tags = notice.tags
             /\ IF notice.environment # Undefined
                THEN /\ "environment" \in DOMAIN payload.context
                     /\ payload.context.environment = notice.environment
                     /\ \A k \in DOMAIN notice.context \ {"environment"} :
                           /\ k \in DOMAIN payload.context
                           /\ payload.context[k] = notice.context[k]
                ELSE payload.context = notice.context
             /\ payload.request = notice.request
             /\ payload.user = notice.user
             /\ payloadCall.second = payload

----------------------------------------------------------------------------
(* Properties of the context snapshot (index.ts, client.ts).               *)

\* C31: the context and user of a transmitted payload are the global
\* mappings as they were when notify was called, merged with the per-call
\* options, the per-call value winning; setContext, setUser and clear
\* performed between the notify call and the transmission change nothing
\* of it.
PayloadIsSnapshot ==
    /\ wire.sent => /\ wire.context = wire.expectedContext
                    /\ wire.user = wire.expectedUser
    /\ \A i \in DOMAIN pending : /\ pending[i].context = pending[i].expectedContext
                                 /\ pending[i].user = pending[i].expectedUser

\* Witness of C31: a payload has just been transmitted whose notify call
\* overrode a global key, and the global context and user were given other
\* contents while it waited, so that neither is what was transmitted.
TransmittedAfterChange ==
    /\ ctxOp = "transmit"
    /\ wire.sent
    /\ wire.globalsChanged
    /\ wire.context = [id |-> 1, plan |-> 1]
    /\ wire.context # globalContext
    /\ wire.user # globalUser

====
